---- MODULE Spec2Model ----
(***************************************************************************)
(* Model of src/app/page.tsx: the dual-timezone analog clock.              *)
(*                                                                         *)
(*   getTimeForTimeZone  instant + IANA identifier -> wall clock, with the *)
(*                       local-time fallback of its catch block            *)
(*   Clock               useState/useEffect lifecycle (one interval timer  *)
(*                       per mounted instance) and the four rotations      *)
(*   Hand                how a rotation value is put on the screen         *)
(*                                                                         *)
(* An Instant is a whole number of seconds in a UTC day (0..86399); the    *)
(* milliseconds of a Date are never read by the code.  JavaScript numbers  *)
(* are modelled as exact rationals [num, den] in lowest terms, so every    *)
(* `/`, `*` and `+` of the source is carried out in the order it is        *)
(* written; IEEE-754 rounding of the doubles is not modelled.              *)
(***************************************************************************)
EXTENDS Integers, Sequences, FiniteSets, TLC

VARIABLES
    now,        \* the host's current Instant (what `new Date()` returns)
    elapsed,    \* seconds the host clock has advanced since Init
    platform,   \* the host: tz database, local zone, season, midnight style
    status,     \* per Clock instance: "fresh", "mounted", "removed", "crashed"
    time,       \* per Clock instance: the `time` state of useState
    view,       \* per Clock instance: what its last render computed
    intervalId, \* per Clock instance: the id its effect closure holds
    timers,     \* the host's active interval timers: records [id, owner]
    due,        \* ids of active timers whose callback is pending
    nextId,     \* the id the next setInterval call returns
    console,    \* console.error lines: the identifiers they name
    event       \* the last step taken: [kind, clock]

vars == <<now, elapsed, platform, status, time, view, intervalId, timers,
          due, nextId, console, event>>

----------------------------------------------------------------------------
(* Bounds of the model *)

NumClocks == 2

MaxElapsed == 2

Clocks == 1..NumClocks

\* Instants the lifecycle runs start from: midnight UTC, and two seconds
\* before local midnight in Athens and in Warsaw (winter time).
StartInstants == {0, 79198, 82798}

NoInstant == 0 - 1

----------------------------------------------------------------------------
(* JavaScript Number arithmetic, as exact rationals *)

Abs(x) == IF x < 0 THEN 0 - x ELSE x

RECURSIVE GCD(_, _)
GCD(a, b) == IF b = 0 THEN a ELSE GCD(b, a % b)

Rat(n, d) ==
    LET g == GCD(Abs(n), Abs(d))
        s == IF d < 0 THEN 0 - 1 ELSE 1
    IN  [num |-> (s * n) \div g, den |-> (s * d) \div g]

Num(i) == Rat(i, 1)

NumAdd(a, b) == Rat(a.num * b.den + b.num * a.den, a.den * b.den)

NumMul(a, b) == Rat(a.num * b.num, a.den * b.den)

NumDiv(a, b) == Rat(a.num * b.den, a.den * b.num)

NumLess(a, b) == a.num * b.den < b.num * a.den

\* the representative of a (degrees) in [0, 360)
Mod360(a) == Rat(a.num % (360 * a.den), a.den)

----------------------------------------------------------------------------
(* The host platform: Date and Intl.DateTimeFormat *)

Warsaw == "Europe/Warsaw"

Athens == "Europe/Athens"

\* knownZones: the identifiers Intl.DateTimeFormat accepts; localOffset: the
\* machine's zone, minutes east of UTC; dst: European summer time in force;
\* midnight24: the en-US, hour12:false formatter writes midnight as "24".
Platforms ==
    { [knownZones |-> {Warsaw, Athens}, localOffset |-> 330,
       dst |-> FALSE, midnight24 |-> TRUE],
      [knownZones |-> {Warsaw, Athens}, localOffset |-> 0 - 210,
       dst |-> TRUE, midnight24 |-> FALSE],
      [knownZones |-> {Warsaw}, localOffset |-> 330,
       dst |-> FALSE, midnight24 |-> TRUE],
      [knownZones |-> {}, localOffset |-> 0 - 210,
       dst |-> TRUE, midnight24 |-> FALSE] }

\* UTC offset, in minutes, the tz database gives a zone.
ZoneOffset(timeZone, pf) ==
    (IF timeZone = Warsaw THEN 60 ELSE 120) + (IF pf.dst THEN 60 ELSE 0)

\* hour/minute/second of an Instant seen `offset` minutes east of UTC
WallClockAt(date, offset) ==
    LET local == (date + 60 * offset) % 86400
    IN  [hour   |-> local \div 3600,
         minute |-> (local % 3600) \div 60,
         second |-> local % 60]

\* Date.prototype.getHours / getMinutes / getSeconds
getHours(date, pf) == WallClockAt(date, pf.localOffset).hour

getMinutes(date, pf) == WallClockAt(date, pf.localOffset).minute

getSeconds(date, pf) == WallClockAt(date, pf.localOffset).second

DigitChars == <<"0", "1", "2", "3", "4", "5", "6", "7", "8", "9">>

\* the formatter's two-digit rendering of a field
TwoDigits(n) == <<DigitChars[(n \div 10) + 1], DigitChars[(n % 10) + 1]>>

DigitValue(c) == (CHOOSE k \in 1..10 : DigitChars[k] = c) - 1

\* parseInt on a string of decimal digits
RECURSIVE parseInt(_)
parseInt(str) ==
    IF str = <<>> THEN 0
    ELSE 10 * parseInt(SubSeq(str, 1, Len(str) - 1)) + DigitValue(str[Len(str)])

\* new Intl.DateTimeFormat('en-US', {timeZone, hour12: false, ...})
\*   .formatToParts(date): a RangeError for an identifier the platform does
\* not know, otherwise the parts hour ":" minute ":" second.
formatToParts(timeZone, date, pf) ==
    IF timeZone \notin pf.knownZones
    THEN [threw |-> TRUE, parts |-> <<>>]
    ELSE LET wc   == WallClockAt(date, ZoneOffset(timeZone, pf))
             hour == IF wc.hour = 0 /\ pf.midnight24 THEN 24 ELSE wc.hour
         IN  [threw |-> FALSE,
              parts |-> << [type |-> "hour",    value |-> TwoDigits(hour)],
                           [type |-> "literal", value |-> <<":">>],
                           [type |-> "minute",  value |-> TwoDigits(wc.minute)],
                           [type |-> "literal", value |-> <<":">>],
                           [type |-> "second",  value |-> TwoDigits(wc.second)] >>]

----------------------------------------------------------------------------
(* getTimeForTimeZone *)

getValue(parts, type) ==
    LET found == {k \in 1..Len(parts) : parts[k].type = type}
    IN  IF found = {} THEN 0
        ELSE parseInt(parts[CHOOSE k \in found : \A j \in found : k <= j].value)

NoWallClock == [hour |-> 0, minute |-> 0, second |-> 0]

\* The same function with the try/catch left out: the RangeError escapes.
getTimeForTimeZoneNoCatch(timeZone, date, pf) ==
    LET f    == formatToParts(timeZone, date, pf)
        hour == getValue(f.parts, "hour")
    IN  IF f.threw
        THEN [threw |-> TRUE, value |-> NoWallClock, logged |-> <<>>]
        ELSE [threw  |-> FALSE,
              value  |-> [hour   |-> IF hour = 24 THEN 0 ELSE hour,
                          minute |-> getValue(f.parts, "minute"),
                          second |-> getValue(f.parts, "second")],
              logged |-> <<>>]

\* The same function without the `hour === 24 ? 0 : hour` normalisation.
getTimeForTimeZoneRawHour(timeZone, date, pf) ==
    LET f == formatToParts(timeZone, date, pf)
    IN  IF f.threw
        THEN [threw  |-> FALSE,
              value  |-> [hour   |-> getHours(date, pf),
                          minute |-> getMinutes(date, pf),
                          second |-> getSeconds(date, pf)],
              logged |-> <<timeZone>>]
        ELSE [threw  |-> FALSE,
              value  |-> [hour   |-> getValue(f.parts, "hour"),
                          minute |-> getValue(f.parts, "minute"),
                          second |-> getValue(f.parts, "second")],
              logged |-> <<>>]

\* The completion of a call: whether it threw, the wall clock it returned,
\* and the identifiers its console.error lines name.
getTimeForTimeZone(timeZone, date, pf) ==
    LET f    == formatToParts(timeZone, date, pf)
        hour == getValue(f.parts, "hour")
    IN  IF f.threw
        THEN \* catch (e): log, then fall back to local time
             [threw  |-> FALSE,
              value  |-> [hour   |-> getHours(date, pf),
                          minute |-> getMinutes(date, pf),
                          second |-> getSeconds(date, pf)],
              logged |-> <<timeZone>>]
        ELSE [threw  |-> FALSE,
              value  |-> [hour   |-> IF hour = 24 THEN 0 ELSE hour,
                          minute |-> getValue(f.parts, "minute"),
                          second |-> getValue(f.parts, "second")],
              logged |-> <<>>]

----------------------------------------------------------------------------
(* Clock: the rotation calculations *)

CSS_OFFSET == -90

\* The second hand with the offset left out.
secondRotationNoOffset(second) ==
    NumMul(NumDiv(Num(second), Num(60)), Num(360))

\* (second / 60) * 360 + CSS_OFFSET
secondRotation(second) ==
    NumAdd(NumMul(NumDiv(Num(second), Num(60)), Num(360)), Num(CSS_OFFSET))

\* The minute hand without the smooth sweep: a jump once per minute.
minuteRotationNoSweep(minute, second) ==
    NumAdd(NumMul(NumDiv(Num(minute), Num(60)), Num(360)), Num(CSS_OFFSET))

\* The minute hand with the sweep term subtracted.
minuteRotationBackSweep(minute, second) ==
    NumAdd(NumAdd(NumMul(NumDiv(Num(minute), Num(60)), Num(360)),
                  NumMul(NumDiv(Num(0 - second), Num(60)), Num(6))),
           Num(CSS_OFFSET))

\* The minute hand with the sweep term scaled as a full turn per minute.
minuteRotationFastSweep(minute, second) ==
    NumAdd(NumAdd(NumMul(NumDiv(Num(minute), Num(60)), Num(360)),
                  NumMul(NumDiv(Num(second), Num(60)), Num(360))),
           Num(CSS_OFFSET))

\* (minute / 60) * 360 + (second / 60) * 6 + CSS_OFFSET
minuteRotation(minute, second) ==
    NumAdd(NumAdd(NumMul(NumDiv(Num(minute), Num(60)), Num(360)),
                  NumMul(NumDiv(Num(second), Num(60)), Num(6))),
           Num(CSS_OFFSET))

\* ((cetTime.hour % 12) / 12) * 360 + (minute / 60) * 30 + CSS_OFFSET
cetHourRotation(cetTime, minute) ==
    NumAdd(NumAdd(NumMul(NumDiv(Num(cetTime.hour % 12), Num(12)), Num(360)),
                  NumMul(NumDiv(Num(minute), Num(60)), Num(30))),
           Num(CSS_OFFSET))

\* The EET hour hand smoothed with its own zone's minute.
eetHourRotationOwnMinute(eetTime, minute) ==
    NumAdd(NumAdd(NumMul(NumDiv(Num(eetTime.hour % 12), Num(12)), Num(360)),
                  NumMul(NumDiv(Num(eetTime.minute), Num(60)), Num(30))),
           Num(CSS_OFFSET))

\* ((eetTime.hour % 12) / 12) * 360 + (minute / 60) * 30 + CSS_OFFSET
eetHourRotation(eetTime, minute) ==
    NumAdd(NumAdd(NumMul(NumDiv(Num(eetTime.hour % 12), Num(12)), Num(360)),
                  NumMul(NumDiv(Num(minute), Num(60)), Num(30))),
           Num(CSS_OFFSET))

HandTypes == {"cet-hour", "eet-hour", "minute", "second"}

----------------------------------------------------------------------------
(* Hand *)

\* Where a Hand is displayed pointing, in degrees clockwise from 12 o'clock.
\* CSS rotate() turns clockwise about the transform origin.  The second hand
\* is a vertical 2px line whose bottom centre sits on the pivot, so unrotated
\* it points up, to 12 o'clock; an image hand is a horizontal strip whose
\* base sits on the pivot, so unrotated it points right, to 3 o'clock.
Hand(type, rotation, isSecondHand) ==
    IF isSecondHand
    THEN Mod360(rotation)
    ELSE Mod360(NumAdd(rotation, Num(90)))

----------------------------------------------------------------------------
(* Clock: one render *)

NoRotation == [h \in HandTypes |-> Num(0)]

NoView ==
    [stage |-> "none", cetTime |-> NoWallClock, eetTime |-> NoWallClock,
     rotation |-> NoRotation, pointing |-> NoRotation]

\* The four rotation values, from the two resolved wall clocks.  Minute and
\* second are destructured from cetTime alone.
Rotations(cetTime, eetTime) ==
    LET minute == cetTime.minute
        second == cetTime.second
    IN  [h \in HandTypes |->
            CASE h = "cet-hour" -> cetHourRotation(cetTime, minute)
              [] h = "eet-hour" -> eetHourRotation(eetTime, minute)
              [] h = "minute"   -> minuteRotation(minute, second)
              [] h = "second"   -> secondRotation(second)]

\* The four <Hand> elements of the returned JSX.
Hands(rotation) ==
    [h \in HandTypes |-> Hand(h, rotation[h], h = "second")]

\* The part of a render after both zones are resolved.
Calculated(cetTime, eetTime) ==
    LET rotation == Rotations(cetTime, eetTime)
    IN  [stage |-> "rendered", cetTime |-> cetTime, eetTime |-> eetTime,
         rotation |-> rotation, pointing |-> Hands(rotation)]

\* A whole render of Clock against the `time` state: the view it produces
\* and the console lines it writes.  A throw out of either resolver call
\* aborts the render (the second call is then never made).
ClockRender(date, pf) ==
    LET cet == getTimeForTimeZone(Warsaw, date, pf)
        eet == getTimeForTimeZone(Athens, date, pf)
    IN  IF cet.threw
        THEN [view |-> [NoView EXCEPT !.stage = "aborted"], logged |-> cet.logged]
        ELSE IF eet.threw
        THEN [view |-> [NoView EXCEPT !.stage = "aborted"],
              logged |-> cet.logged \o eet.logged]
        ELSE [view |-> Calculated(cet.value, eet.value),
              logged |-> cet.logged \o eet.logged]

\* console.error: one more line naming each identifier of `logged`
Logged(con, logged) ==
    [z \in DOMAIN con |->
        con[z] + Cardinality({k \in 1..Len(logged) : logged[k] = z})]

----------------------------------------------------------------------------
(* Clock: state, effect and timer *)

\* clearInterval(id): the timer leaves the host's table and a callback of
\* it that is pending never runs.
clearInterval(tms, id) == {t \in tms : t.id # id}

ActiveIds == {t.id : t \in timers}

\* What a render does to an instance: its view, the console, and, when the
\* render threw, the unmount of the tree with the effect's cleanup.
RenderInto(i, date) ==
    \E r \in {ClockRender(date, platform)} :
        /\ view' = [view EXCEPT ![i] = r.view]
        /\ console' = Logged(console, r.logged)
        /\ IF r.view.stage = "aborted"
           THEN /\ status' = [status EXCEPT ![i] = "crashed"]
                /\ timers' = clearInterval(timers, intervalId[i])
           ELSE /\ status' = [status EXCEPT ![i] = "mounted"]
                /\ UNCHANGED timers

\* First render (useState(new Date())) and, after it, the effect:
\* intervalId = setInterval(callback, 1000).
Mount(i) ==
    /\ status[i] = "fresh"
    /\ \E r \in {ClockRender(now, platform)} :
           /\ time' = [time EXCEPT ![i] = now]
           /\ view' = [view EXCEPT ![i] = r.view]
           /\ console' = Logged(console, r.logged)
           /\ IF r.view.stage = "aborted"
              THEN /\ status' = [status EXCEPT ![i] = "crashed"]
                   /\ UNCHANGED <<timers, intervalId, nextId>>
              ELSE /\ status' = [status EXCEPT ![i] = "mounted"]
                   /\ timers' = timers \cup {[id |-> nextId, owner |-> i]}
                   /\ intervalId' = [intervalId EXCEPT ![i] = nextId]
                   /\ nextId' = nextId + 1
    /\ event' = [kind |-> "mount", clock |-> i]
    /\ UNCHANGED <<now, elapsed, platform, due>>

\* The interval callback that sets the state and leaves the view as it was.
TickNoRender(t) ==
    /\ t \in timers
    /\ t.id \in due
    /\ time' = [time EXCEPT ![t.owner] = now]
    /\ due' = due \ {t.id}
    /\ event' = [kind |-> "tick", clock |-> t.owner]
    /\ UNCHANGED <<now, elapsed, platform, status, view, intervalId, timers,
                   nextId, console>>

\* The body of timer t's callback run at Instant `date`:
\* setTime(new Date()), and the re-render the state change causes while the
\* component is mounted.
OnInterval(t, date) ==
    /\ time' = [time EXCEPT ![t.owner] = date]
    /\ IF status[t.owner] = "mounted"
       THEN RenderInto(t.owner, date)
       ELSE UNCHANGED <<view, console, status, timers>>
    /\ event' = [kind |-> "tick", clock |-> t.owner]
    /\ UNCHANGED <<platform, intervalId, nextId>>

\* The interval callback of timer t, run some time after it fell due.
Tick(t) ==
    /\ t \in timers
    /\ t.id \in due
    /\ OnInterval(t, now)
    /\ due' = due \ {t.id}
    /\ UNCHANGED <<now, elapsed>>

\* An unmount whose cleanup leaves the interval running.
UnmountLeak(i) ==
    /\ status[i] = "mounted"
    /\ status' = [status EXCEPT ![i] = "removed"]
    /\ event' = [kind |-> "unmount", clock |-> i]
    /\ UNCHANGED <<now, elapsed, platform, time, view, intervalId, timers,
                   due, nextId, console>>

\* Unmount: the effect's cleanup, clearInterval(intervalId).
Unmount(i) ==
    /\ status[i] = "mounted"
    /\ status' = [status EXCEPT ![i] = "removed"]
    /\ timers' = clearInterval(timers, intervalId[i])
    /\ due' = due \ {intervalId[i]}
    /\ event' = [kind |-> "unmount", clock |-> i]
    /\ UNCHANGED <<now, elapsed, platform, time, view, intervalId, nextId,
                   console>>

\* A second passes on the host: every active interval's callback is queued.
Advance ==
    /\ elapsed < MaxElapsed
    /\ now' = (now + 1) % 86400
    /\ elapsed' = elapsed + 1
    /\ due' = ActiveIds
    /\ event' = [kind |-> "advance", clock |-> 0]
    /\ UNCHANGED <<platform, status, time, view, intervalId, timers, nextId,
                   console>>

NoConsole == [z \in {Warsaw, Athens} |-> 0]

Init ==
    /\ now \in StartInstants
    /\ elapsed = 0
    /\ platform \in Platforms
    /\ status = [i \in Clocks |-> "fresh"]
    /\ time = [i \in Clocks |-> NoInstant]
    /\ view = [i \in Clocks |-> NoView]
    /\ intervalId = [i \in Clocks |-> 0]
    /\ timers = {}
    /\ due = {}
    /\ nextId = 1
    /\ console = NoConsole
    /\ event = [kind |-> "init", clock |-> 0]

Next ==
    \/ \E i \in Clocks : Mount(i)
    \/ \E t \in timers : Tick(t)
    \/ \E i \in Clocks : Unmount(i)
    \/ Advance

Spec == Init /\ [][Next]_vars

----------------------------------------------------------------------------
(* The rotation calculations alone, on every wall clock *)

\* The resolved wall-clock pairs (cetTime, eetTime) the calculations are run
\* on: every pair of hours with every minute, on the minute, the secondary
\* zone half an hour off the primary's minute; and every minute and second
\* of three hours, both zones on the same minute.
CalcCase(hP, hS, s, d) ==
    \/ s = 0 /\ d = 30
    \/ /\ hP \in {0, 13, 23}
       /\ hS = (hP + 1) % 24
       /\ d = 0

InitCalc ==
    /\ now = 0
    /\ elapsed = 0
    /\ platform = CHOOSE pf \in Platforms :
                      pf.knownZones = {Warsaw, Athens} /\ ~pf.dst
    /\ status = [i \in Clocks |-> IF i = 1 THEN "mounted" ELSE "fresh"]
    /\ time = [i \in Clocks |-> IF i = 1 THEN 0 ELSE NoInstant]
    /\ \E hP \in 0..23, hS \in 0..23, m \in 0..59, s \in 0..59, d \in {0, 30} :
          /\ CalcCase(hP, hS, s, d)
          /\ view = [i \in Clocks |->
                IF i = 1
                THEN [NoView EXCEPT
                        !.stage = "resolved",
                        !.cetTime = [hour |-> hP, minute |-> m, second |-> s],
                        !.eetTime = [hour |-> hS, minute |-> (m + d) % 60,
                                     second |-> s]]
                ELSE NoView]
    /\ intervalId = [i \in Clocks |-> IF i = 1 THEN 1 ELSE 0]
    /\ timers = {[id |-> 1, owner |-> 1]}
    /\ due = {}
    /\ nextId = 2
    /\ console = NoConsole
    /\ event = [kind |-> "resolve", clock |-> 1]

\* The rest of the render: rotations and hands from the resolved clocks.
Calculate(i) ==
    /\ view[i].stage = "resolved"
    /\ view' = [view EXCEPT
                   ![i] = Calculated(view[i].cetTime, view[i].eetTime)]
    /\ event' = [kind |-> "calculate", clock |-> i]
    /\ UNCHANGED <<now, elapsed, platform, status, time, intervalId, timers,
                   due, nextId, console>>

NextCalc == \E i \in Clocks : Calculate(i)

SpecCalc == InitCalc /\ [][NextCalc]_vars

----------------------------------------------------------------------------
(* One mounted Clock ticking punctually, from every hour of the day *)

MaxDayElapsed == 3600

\* The state a Clock mounted on the hour is in: its first render done and
\* its interval timer set.
InitDay ==
    /\ now \in {3600 * h : h \in 0..23}
    /\ elapsed = 0
    /\ platform \in Platforms
    /\ status = [i \in Clocks |-> IF i = 1 THEN "mounted" ELSE "fresh"]
    /\ time = [i \in Clocks |-> IF i = 1 THEN now ELSE NoInstant]
    /\ view = [i \in Clocks |->
                 IF i = 1 THEN ClockRender(now, platform).view ELSE NoView]
    /\ intervalId = [i \in Clocks |-> IF i = 1 THEN 1 ELSE 0]
    /\ timers = {[id |-> 1, owner |-> 1]}
    /\ due = {}
    /\ nextId = 2
    /\ console = Logged(NoConsole, ClockRender(now, platform).logged)
    /\ event = [kind |-> "mount", clock |-> 1]

\* A second passes and the interval callback runs at once.
SecondPasses ==
    /\ elapsed < MaxDayElapsed
    /\ now' = (now + 1) % 86400
    /\ elapsed' = elapsed + 1
    /\ \E t \in timers : OnInterval(t, now')
    /\ UNCHANGED due

NextDay == SecondPasses

SpecDay == InitDay /\ [][NextDay]_vars

----------------------------------------------------------------------------
(* Properties *)

NumSub(a, b) == NumAdd(a, NumMul(Num(0 - 1), b))

Rendered(i) == view[i].stage = "rendered"

\* The (minute, second) one second after (m, s), within the hour cycle.
NextSecond(m, s) ==
    IF s < 59 THEN <<m, s + 1>> ELSE <<(m + 1) % 60, 0>>

\* C1: each hour hand's rotation is ((hour % 12)/12)*360 + (m/60)*30 - 90,
\* that is (60*(hour % 12) + m - 180)/2 degrees, with the hand's own zone's
\* hour and, for both hands, the primary zone's minute m.
C1_HourHandsOwnHourSharedMinute ==
    \A i \in Clocks :
        Rendered(i) =>
            /\ view[i].rotation["cet-hour"] =
                   Rat(60 * (view[i].cetTime.hour % 12)
                          + view[i].cetTime.minute - 180, 2)
            /\ view[i].rotation["eet-hour"] =
                   Rat(60 * (view[i].eetTime.hour % 12)
                          + view[i].cetTime.minute - 180, 2)
            /\ (view[i].cetTime.hour = 0 /\ view[i].cetTime.minute = 0
                   => view[i].rotation["cet-hour"] = Num(0 - 90))

\* A render with secondary hour 14, shared minute 30 and the secondary zone's
\* own minute at 0: the EET hour hand stands at -15 degrees.
C1_Witness ==
    \E i \in Clocks :
        /\ Rendered(i)
        /\ view[i].eetTime.hour = 14
        /\ view[i].cetTime.minute = 30
        /\ view[i].eetTime.minute = 0
        /\ view[i].rotation["eet-hour"] = Num(0 - 15)

\* C2: the minute hand's rotation is (m/60)*360 + (s/60)*6 - 90, that is
\* (60*m + s - 900)/10 degrees, for the primary zone's minute m and second s.
C2_MinuteHandFormula ==
    \A i \in Clocks :
        Rendered(i) =>
            view[i].rotation["minute"] =
                Rat(60 * view[i].cetTime.minute + view[i].cetTime.second - 900, 10)

\* A render at minute 0, second 30: the minute hand stands at -87 degrees.
C2_Witness ==
    \E i \in Clocks :
        /\ Rendered(i)
        /\ view[i].cetTime.minute = 0
        /\ view[i].cetTime.second = 30
        /\ view[i].rotation["minute"] = Num(0 - 87)

\* C3: the second hand's rotation is 6*s - 90 degrees, always in [-90, 270);
\* as the primary wall clock advances by a second per tick it gains 6
\* degrees, except from second 59, where it returns to -90.
C3_SecondHandFormulaAndWrap ==
    /\ [](\A i \in Clocks :
            Rendered(i) =>
                /\ view[i].rotation["second"] =
                       Num(6 * view[i].cetTime.second - 90)
                /\ ~NumLess(view[i].rotation["second"], Num(0 - 90))
                /\ NumLess(view[i].rotation["second"], Num(270)))
    /\ [][\A i \in Clocks :
            (/\ Rendered(i)
             /\ Rendered(i)'
             /\ view'[i].cetTime.second = (view[i].cetTime.second + 1) % 60)
            => view'[i].rotation["second"] =
                  IF view[i].cetTime.second = 59
                  THEN Num(0 - 90)
                  ELSE NumAdd(view[i].rotation["second"], Num(6))]_vars

\* A tick has brought the second hand back to -90 after a full turn.
C3_Witness ==
    \E i \in Clocks :
        /\ Rendered(i)
        /\ event.kind = "tick"
        /\ elapsed >= 60
        /\ view[i].cetTime.second = 0
        /\ view[i].rotation["second"] = Num(0 - 90)

\* C4: every hand is displayed pointing its clock-convention angle (its
\* rotation with the -90 correction taken back out) clockwise from
\* 12 o'clock; at 00:00:00 all four hands point at 12 o'clock.
C4_HandsPointClockConventionAngle ==
    \A i \in Clocks :
        Rendered(i) =>
            \A h \in HandTypes :
                view[i].pointing[h] =
                    Mod360(NumSub(view[i].rotation[h], Num(CSS_OFFSET)))

\* The render step of a Clock instance, seen in the state change: its mount,
\* or the run of its pending interval callback.
RenderStep(i) ==
    \/ status[i] = "fresh" /\ status'[i] # "fresh"
    \/ /\ status[i] = "mounted"
       /\ intervalId[i] \in due
       /\ intervalId[i] \notin due'
       /\ status'[i] # "removed"

\* C5: a rejected identifier never makes the resolver throw: no render is
\* aborted, the wall clock shown for a rejected zone is the machine's local
\* wall clock of the instance's Instant, and every render (the mount and
\* each later tick alike) logs one line naming each rejected identifier.
C5_FallbackNeverThrows ==
    /\ [](\A i \in Clocks :
            /\ status[i] # "crashed"
            /\ view[i].stage \in {"none", "rendered"}
            /\ Rendered(i) =>
                  /\ Warsaw \notin platform.knownZones =>
                        view[i].cetTime =
                            WallClockAt(time[i], platform.localOffset)
                  /\ Athens \notin platform.knownZones =>
                        view[i].eetTime =
                            WallClockAt(time[i], platform.localOffset))
    /\ [][\A i \in Clocks :
            RenderStep(i) =>
                /\ Rendered(i)'
                /\ \A z \in {Warsaw, Athens} :
                      console'[z] = console[z]
                          + (IF z \in platform.knownZones THEN 0 ELSE 1)]_vars

\* On a platform that rejects both identifiers a Clock has ticked after its
\* mount: both resolutions fell back twice and the view is still rendered.
C5_Witness ==
    \E i \in Clocks :
        /\ platform.knownZones = {}
        /\ event = [kind |-> "tick", clock |-> i]
        /\ Rendered(i)
        /\ console[Warsaw] >= 2
        /\ console[Athens] >= 2
        /\ view[i].cetTime = WallClockAt(now, platform.localOffset)

\* The hour the formatter's parts carry for a zone at an Instant.
RawHour(timeZone, date) ==
    getValue(formatToParts(timeZone, date, platform).parts, "hour")

\* C6: every wall clock a render holds has hour in 0..23 and minute and
\* second in 0..59, on the formatter path and on the fallback path; a raw
\* hour of 24 from the formatter comes back as 0 and any other raw hour
\* comes back unchanged.
C6_WallClockRanges ==
    \A i \in Clocks :
        Rendered(i) =>
            /\ \A wc \in {view[i].cetTime, view[i].eetTime} :
                  /\ wc.hour \in 0..23
                  /\ wc.minute \in 0..59
                  /\ wc.second \in 0..59
            /\ Warsaw \in platform.knownZones =>
                  view[i].cetTime.hour =
                      IF RawHour(Warsaw, time[i]) = 24
                      THEN 0 ELSE RawHour(Warsaw, time[i])
            /\ Athens \in platform.knownZones =>
                  view[i].eetTime.hour =
                      IF RawHour(Athens, time[i]) = 24
                      THEN 0 ELSE RawHour(Athens, time[i])

\* A tick at Warsaw midnight on a platform that writes midnight as "24".
C6_Witness ==
    \E i \in Clocks :
        /\ Rendered(i)
        /\ event.kind = "tick"
        /\ Warsaw \in platform.knownZones
        /\ RawHour(Warsaw, time[i]) = 24
        /\ view[i].cetTime.hour = 0

TimersOf(i) == {t \in timers : t.owner = i}

\* C7: an instance has at most one active timer: exactly one, the one its
\* effect holds, while it is mounted, and none before its mount and after
\* its unmount; a step changes the time state of at most one instance, and
\* never that of an unmounted one.
C7_OneTimerPerMountedClock ==
    /\ [](\A i \in Clocks :
            /\ Cardinality(TimersOf(i)) <= 1
            /\ status[i] = "mounted" =>
                  TimersOf(i) = {[id |-> intervalId[i], owner |-> i]}
            /\ status[i] # "mounted" => TimersOf(i) = {}
            /\ status[i] # "mounted" => intervalId[i] \notin due)
    /\ [][\A i \in Clocks :
            time'[i] # time[i] =>
                /\ status[i] # "removed"
                /\ status'[i] = "mounted"
                /\ \A j \in Clocks \ {i} : time'[j] = time[j]]_vars

\* One instance was unmounted and kept its old time state while another
\* one's timer went on ticking.
C7_Witness ==
    \E i, j \in Clocks :
        /\ status[i] = "removed"
        /\ status[j] = "mounted"
        /\ event = [kind |-> "tick", clock |-> j]
        /\ time[i] # NoInstant
        /\ time[i] # time[j]
        /\ time[j] = now

\* C8: for a fixed minute the minute hand's rotation is strictly increasing
\* in the second: it is above the rotation of every earlier second of the
\* minute and below that of every later one.
C8_MinuteHandIncreasingInSecond ==
    \A i \in Clocks :
        Rendered(i) =>
            \A s2 \in 0..59 :
                /\ s2 < view[i].cetTime.second =>
                      NumLess(minuteRotation(view[i].cetTime.minute, s2),
                              view[i].rotation["minute"])
                /\ s2 > view[i].cetTime.second =>
                      NumLess(view[i].rotation["minute"],
                              minuteRotation(view[i].cetTime.minute, s2))

\* A render in the middle of a minute, with earlier and later seconds.
C8_Witness ==
    \E i \in Clocks :
        /\ Rendered(i)
        /\ view[i].cetTime.minute = 59
        /\ view[i].cetTime.second = 29

\* The view a render against Instant `date` produces on this platform.
ViewAt(date) ==
    Calculated(getTimeForTimeZone(Warsaw, date, platform).value,
               getTimeForTimeZone(Athens, date, platform).value)

\* C9: what a mounted Clock displays is computed wholly from its current
\* time state, both zones resolved against that one Instant; and right after
\* a mount or a tick of the instance that Instant is the one of that step.
C9_ViewFromLatestInstant ==
    \A i \in Clocks :
        /\ status[i] = "mounted" => view[i] = ViewAt(time[i])
        /\ (status[i] = "mounted" /\ event.clock = i
               /\ event.kind \in {"mount", "tick"}) => time[i] = now

\* A Clock has ticked at least twice and shows the latest Instant.
C9_Witness ==
    \E i \in Clocks :
        /\ status[i] = "mounted"
        /\ event = [kind |-> "tick", clock |-> i]
        /\ elapsed >= 2
        /\ time[i] = now
        /\ view[i] = ViewAt(now)

\* C10: when the primary wall clock advances by exactly one second from one
\* render to the next, the minute hand advances by exactly 1/10 degree
\* modulo 360, at the minute and hour rollovers too.
C10_MinuteHandTenthPerSecond ==
    [][\A i \in Clocks :
        (/\ Rendered(i)
         /\ Rendered(i)'
         /\ <<view'[i].cetTime.minute, view'[i].cetTime.second>> =
                NextSecond(view[i].cetTime.minute, view[i].cetTime.second))
        => Mod360(NumSub(view'[i].rotation["minute"],
                         view[i].rotation["minute"])) = Rat(1, 10)]_vars

\* A tick has carried the primary wall clock over the hour rollover.
C10_Witness ==
    \E i \in Clocks :
        /\ Rendered(i)
        /\ event.kind = "tick"
        /\ view[i].cetTime.minute = 0
        /\ view[i].cetTime.second = 0
        /\ view[i].rotation["minute"] = Num(0 - 90)

====
